---- MODULE Spec2Model ----
(***************************************************************************)
(* Model of src/lib/replicate-service.ts: the ReplicateService adapter.    *)
(*                                                                         *)
(* Under Spec one service instance serves one public operation at a time.  *)
(* An operation runs from its call to its first `await`    *)
(* in one step (the Call... actions), and from each settlement of an       *)
(* awaited provider promise to the next `await` or to its return in one    *)
(* step (the ...Settle actions).  The provider is the environment: each    *)
(* awaited promise may reject (with an Error or with a value that is not   *)
(* an Error), resolve to null, or resolve to a response object whose       *)
(* fields are loosely typed.                                               *)
(***************************************************************************)
EXTENDS Integers, Sequences, FiniteSets, TLC

VARIABLES
    op,       \* the public operation in progress, "none" when idle
    pc,       \* "idle", the await the operation is suspended at, or "returned"/"raised"
    params,   \* the argument record of the operation in progress
    locals,   \* the local constants the operation computed before its await
    calls,    \* the provider requests issued by the operation in progress, in order
    result,   \* the completion of the operation: what it returned or raised
    now,      \* Date.now(), in milliseconds since the model's epoch
    client,   \* this.client: the provider client the constructor built, or NoClient
    background, \* the other operations of the instance: suspended at an await, or
              \* completed with their result still held by their caller
    provider, \* the provider's side: the models it has created, the status of its jobs
    seen      \* the caller's side: the status last reported to it for each training

vars == <<op, pc, params, locals, calls, result, now, client, background, provider, seen>>

-----------------------------------------------------------------------------
(* Bounds of the model.                                                    *)

\* Date.now() advances from 0 up to MaxNow.
MaxNow == 1
\* Model references passed to generateWithTrainedModel have at most MaxIdLen characters.
MaxIdLen == 4

-----------------------------------------------------------------------------
(* JavaScript values.  Provider responses are untyped at run time, so      *)
(* their fields are tagged values: t is the run-time type, s the content   *)
(* of a string (or a label naming an object), a the elements of an array.  *)

Undefined == [t |-> "undefined", s |-> "", a |-> <<>>]
JSNull == [t |-> "null", s |-> "", a |-> <<>>]
JSStr(x) == [t |-> "string", s |-> x, a |-> <<>>]
JSObj(label) == [t |-> "object", s |-> label, a |-> <<>>]
JSArr(xs) == [t |-> "array", s |-> "", a |-> xs]

\* ToBoolean(v): the truthiness `!v`, `v || d` and `a && b` test.
Truthy(v) ==
    CASE v.t = "undefined" -> FALSE
      [] v.t = "null" -> FALSE
      [] v.t = "string" -> v.s # ""
      [] OTHER -> TRUE

RECURSIVE JoinStrings(_)
\* String(v): the conversion String() and template literals apply.
JSString(v) ==
    CASE v.t = "undefined" -> "undefined"
      [] v.t = "null" -> "null"
      [] v.t = "string" -> v.s
      [] v.t = "array" -> JoinStrings(v.a)
      [] OTHER -> "[object Object]"

\* Array.prototype.join(","), which String() applies to an array: null and
\* undefined elements become the empty string.
JoinStrings(xs) ==
    IF xs = <<>> THEN ""
    ELSE LET h == IF xs[1].t \in {"undefined", "null"} THEN "" ELSE JSString(xs[1])
         IN IF Len(xs) = 1 THEN h ELSE h \o "," \o JoinStrings(Tail(xs))

\* typeof v === 'string' ? v : undefined
StringOrUndefined(v) == IF v.t = "string" THEN v ELSE Undefined

\* An optional, statically typed argument: <<>> when it is not supplied, <<v>> when it is.
None == <<>>
Some(v) == <<v>>
Supplied(o) == o # <<>>

\* `o || d` for an optional string argument: the empty string is falsy.
StrOr(o, d) == IF Supplied(o) /\ o[1] # "" THEN o[1] ELSE d
\* `o ?? d` for an optional number argument: only an absent value gives way.
NumOrNullish(o, d) == IF Supplied(o) THEN o[1] ELSE d
\* `o || d` for an optional number argument: 0 is falsy.
NumOr(o, d) == IF Supplied(o) /\ o[1] # 0 THEN o[1] ELSE d
\* `${o}` for an optional string argument.
OptString(o) == IF Supplied(o) THEN o[1] ELSE "undefined"

-----------------------------------------------------------------------------
(* Strings.                                                                *)

\* String.prototype.startsWith
StartsWith(s, p) == Len(s) >= Len(p) /\ SubSeq(s, 1, Len(p)) = p

\* String.prototype.includes
Includes(s, p) == \E i \in 1..(Len(s) - Len(p) + 1) : SubSeq(s, i, i + Len(p) - 1) = p

UpperCaseLetters == "ABCDEFGHIJKLMNOPQRSTUVWXYZ"
LowerCaseLetters == "abcdefghijklmnopqrstuvwxyz"

\* Each upper-case letter's lower-case letter.
LowerTable ==
    [c \in {SubSeq(UpperCaseLetters, i, i) : i \in 1..Len(UpperCaseLetters)} |->
        LET i == CHOOSE j \in 1..Len(UpperCaseLetters) : SubSeq(UpperCaseLetters, j, j) = c
        IN SubSeq(LowerCaseLetters, i, i)]

LowerChar(c) == IF c \in DOMAIN LowerTable THEN LowerTable[c] ELSE c

RECURSIVE ToLowerCase(_)
\* String.prototype.toLowerCase
ToLowerCase(s) ==
    IF s = "" THEN ""
    ELSE LowerChar(SubSeq(s, 1, 1)) \o ToLowerCase(SubSeq(s, 2, Len(s)))

IsWhitespace(c) == c \in {" ", "\t", "\n"}

RECURSIVE ReplaceWhitespaceRuns(_)
\* s.replace(/\s+/g, '-'): every maximal run of whitespace becomes one hyphen.
ReplaceWhitespaceRuns(s) ==
    IF s = "" THEN ""
    ELSE LET c == SubSeq(s, 1, 1)
             rest == SubSeq(s, 2, Len(s))
         IN IF ~IsWhitespace(c) THEN c \o ReplaceWhitespaceRuns(rest)
            ELSE IF rest # "" /\ IsWhitespace(SubSeq(rest, 1, 1))
                 THEN ReplaceWhitespaceRuns(rest)
                 ELSE "-" \o ReplaceWhitespaceRuns(rest)

RECURSIVE LastSegment(_, _)
\* s.split(sep).pop(), for a one-character separator: the text after the last sep.
LastSegment(s, sep) ==
    IF ~Includes(s, sep) THEN s
    ELSE LET i == CHOOSE j \in 1..Len(s) :
                      /\ SubSeq(s, j, j) = sep
                      /\ \A k \in 1..(j - 1) : SubSeq(s, k, k) # sep
         IN LastSegment(SubSeq(s, i + 1, Len(s)), sep)

-----------------------------------------------------------------------------
(* Errors and completions.                                                 *)

\* A thrown or rejected value: an Error carrying a message, or a value that
\* is not an Error (anything may be thrown or used to reject a promise).
Err(msg) == [isError |-> TRUE, message |-> msg]
NonError == [isError |-> FALSE, message |-> ""]

\* The TypeError a property read on null raises.
NullReadError(prop) == Err("Cannot read properties of null (reading '" \o prop \o "')")

\* error instanceof Error ? error.message : fallback
ErrorMessage(e, fallback) == IF e.isError THEN e.message ELSE fallback

\* How a block of code ends: it returns a value or throws.
Return(v) == [kind |-> "return", value |-> v, error |-> NonError]
Throw(e) == [kind |-> "throw", value |-> Undefined, error |-> e]
NoResult == [kind |-> "none", value |-> Undefined, error |-> NonError]

-----------------------------------------------------------------------------
(* Provider responses.                                                     *)

\* What a provider promise resolves to: null, or an object whose fields are
\* untyped at run time (a field the response lacks reads as undefined).
NullResponse ==
    [isNull |-> TRUE, id |-> Undefined, status |-> Undefined, urls |-> Undefined,
     error |-> Undefined, logs |-> Undefined, output |-> Undefined, input |-> Undefined]
Response(id, status, urls, error, logs, output, input) ==
    [isNull |-> FALSE, id |-> id, status |-> status, urls |-> urls,
     error |-> error, logs |-> logs, output |-> output, input |-> input]

\* The settlement of an awaited provider promise.
Resolved(v) == [settled |-> "resolved", value |-> v, error |-> NonError]
Rejected(e) == [settled |-> "rejected", value |-> NullResponse, error |-> e]

\* The status enumeration of ReplicateTrainingResponse.
TrainingStatuses == {"starting", "processing", "succeeded", "failed", "canceled"}
\* The status enumeration of ReplicateGenerationResponse.
GenerationStatuses == {"completed", "failed", "processing"}

\* Status fields a provider response may carry: the five documented ones, a
\* string outside them, or none.
ProviderStatuses == {JSStr(st) : st \in TrainingStatuses} \cup {JSStr("aborted"), Undefined}

ProviderErrors == {Err("Request failed with status 422"), NonError}
Rejections == {Rejected(e) : e \in ProviderErrors}

\* Responses to trainings.create: a job that has just been submitted.
CreatedTrainings ==
    {Response(JSStr("trn1"), st, u, Undefined, Undefined, Undefined, JSObj("input"))
        : st \in ProviderStatuses, u \in {Undefined, JSObj("urls")}}

\* Responses to trainings.get.
FetchedTrainings ==
    {Response(JSStr("trn1"), st, u, e, l, out, JSObj("input"))
        : st \in ProviderStatuses,
          u \in {Undefined, JSObj("urls")},
          e \in {JSNull, JSStr("CUDA out of memory"), JSObj("error")},
          l \in {JSNull, JSStr("step 1/1000"), JSObj("logs")},
          out \in {Undefined, JSObj("weights")}}

ModelsCreateOutcomes == Rejections \cup {Resolved(NullResponse), Resolved(Response(
    Undefined, Undefined, Undefined, Undefined, Undefined, Undefined, Undefined))}
TrainingsCreateOutcomes ==
    Rejections \cup {Resolved(NullResponse)} \cup {Resolved(r) : r \in CreatedTrainings}
TrainingsGetOutcomes ==
    Rejections \cup {Resolved(NullResponse)} \cup {Resolved(r) : r \in FetchedTrainings}
TrainingsCancelOutcomes ==
    Rejections \cup {Resolved(NullResponse)} \cup {Resolved(r) : r \in CreatedTrainings}

\* One provider request of the operation in progress, and how it settled.
Request(endpoint, request) ==
    [endpoint |-> endpoint, request |-> request, outcome |-> "pending",
     response |-> NullResponse, error |-> NonError]

\* The request log once the pending (last) request has settled with o.
Settle(log, o) ==
    [log EXCEPT ![Len(log)] =
        [@ EXCEPT !.outcome = o.settled, !.response = o.value, !.error = o.error]]

-----------------------------------------------------------------------------
(* createDestinationModel                                                  *)

Owner == "micahp"

\* Math.random().toString(36).substring(2, 8): up to six base-36 digits.
RandomSuffixes == {"k3j9zq", "x1"}

ModelNames == {"My  Cat", "cat"}
Descriptions == {None, Some(""), Some("portraits")}

\* `flux-lora-${modelName.toLowerCase().replace(/\s+/g, '-')}-${timestamp}-${randomSuffix}`
DeriveModelId(modelName, timestamp, randomSuffix) ==
    "flux-lora-" \o ReplaceWhitespaceRuns(ToLowerCase(modelName))
        \o "-" \o ToString(timestamp) \o "-" \o randomSuffix

\* The arguments of this.client.models.create(owner, modelId, options).
ModelsCreateRequest(modelName, description, modelId) ==
    [owner |-> Owner,
     name |-> modelId,
     description |-> StrOr(description, "Fine-tuned FLUX LoRA model for " \o modelName),
     visibility |-> "private",
     hardware |-> "gpu-t4"]

\* createDestinationModel returning the bare model name, without its owner.
CreateDestinationModelResultBareName(o, modelId) ==
    IF o.settled = "resolved"
    THEN [success |-> TRUE, modelId |-> JSStr(modelId), error |-> Undefined]
    ELSE [success |-> FALSE, modelId |-> Undefined,
          error |-> JSStr(ErrorMessage(o.error, "Unknown error"))]

\* What createDestinationModel returns once models.create has settled.
CreateDestinationModelResult(o, modelId) ==
    IF o.settled = "resolved"
    THEN [success |-> TRUE, modelId |-> JSStr(Owner \o "/" \o modelId), error |-> Undefined]
    ELSE [success |-> FALSE, modelId |-> Undefined,
          error |-> JSStr(ErrorMessage(o.error, "Unknown error"))]

-----------------------------------------------------------------------------
(* startTraining                                                           *)

SDXL == "stabilityai/stable-diffusion-xl-base-1.0"
FLUX == "black-forest-labs/FLUX.1-dev"
FluxTrainerVersion == "c6e78d2501e8088876e99ef21e4460d0dc121af7a4b786b9a4c2d75c620e300d"

DefaultSteps == 1000
DefaultLoraRank == 16
DefaultBatchSize == 1
\* learning rates are counted in units of 0.0001
DefaultLearningRate == 4
DefaultFluxResolution == "512,768,1024"
DefaultSdxlResolution == "1024"

\* The presence check alone, without the check of the URL's format.
ValidateZipUrlPresenceOnly(zipUrl) ==
    IF ~Supplied(zipUrl) \/ zipUrl[1] = ""
    THEN Throw(Err("ZIP URL is required for Replicate training. Please create a ZIP file of training images first."))
    ELSE Return(Undefined)

\* if (!params.zipUrl) throw ...; if (!startsWith('http') && !startsWith('/api/')) throw ...
ValidateZipUrl(zipUrl) ==
    IF ~Supplied(zipUrl) \/ zipUrl[1] = ""
    THEN Throw(Err("ZIP URL is required for Replicate training. Please create a ZIP file of training images first."))
    ELSE IF ~StartsWith(zipUrl[1], "http") /\ ~StartsWith(zipUrl[1], "/api/")
         THEN Throw(Err("Invalid ZIP URL format: " \o zipUrl[1]
                         \o ". Must be a valid HTTP URL or API endpoint."))
         ELSE Return(Undefined)

\* The base model defaulting to SDXL instead of FLUX.
ResolveBaseModelDefaultSdxl(baseModel) == StrOr(baseModel, SDXL)

\* const baseModel = params.baseModel || 'black-forest-labs/FLUX.1-dev'
ResolveBaseModel(baseModel) == StrOr(baseModel, FLUX)

\* The trainer and the training input startTraining selects for the request.
SelectTrainer(p) ==
    IF ResolveBaseModel(p.baseModel) = SDXL
    THEN [owner |-> "ostris", name |-> "sdxl-lora-trainer", version |-> "latest",
          input |-> [input_images |-> p.zipUrl[1],
                     trigger_word |-> p.triggerWord,
                     max_train_steps |-> NumOr(p.steps, DefaultSteps),
                     lora_rank |-> NumOr(p.loraRank, DefaultLoraRank),
                     optimizer |-> "adamw8bit",
                     batch_size |-> NumOr(p.batchSize, DefaultBatchSize),
                     resolution |-> StrOr(p.resolution, DefaultSdxlResolution),
                     autocaption |-> TRUE,
                     learning_rate |-> NumOr(p.learningRate, DefaultLearningRate),
                     lr_scheduler |-> "constant",
                     lr_warmup_steps |-> 0,
                     seed |-> 42,
                     cache_latents_to_disk |-> FALSE]]
    ELSE [owner |-> "ostris", name |-> "flux-dev-lora-trainer", version |-> FluxTrainerVersion,
          input |-> [input_images |-> p.zipUrl[1],
                     trigger_word |-> p.triggerWord,
                     steps |-> NumOr(p.steps, DefaultSteps),
                     lora_rank |-> NumOr(p.loraRank, DefaultLoraRank),
                     optimizer |-> "adamw8bit",
                     batch_size |-> NumOr(p.batchSize, DefaultBatchSize),
                     resolution |-> StrOr(p.resolution, DefaultFluxResolution),
                     autocaption |-> TRUE,
                     learning_rate |-> NumOr(p.learningRate, DefaultLearningRate),
                     caption_dropout_rate |-> "0.05",
                     cache_latents_to_disk |-> FALSE,
                     wandb_project |-> "flux_train_replicate",
                     wandb_save_interval |-> 100,
                     wandb_sample_interval |-> 100,
                     gradient_checkpointing |-> FALSE]]

\* The arguments of this.client.trainings.create(owner, name, version, options).
TrainingsCreateRequest(p, destination) ==
    LET t == SelectTrainer(p)
    IN [owner |-> t.owner, name |-> t.name, version |-> t.version,
        destination |-> destination, input |-> t.input]

\* A ReplicateTrainingResponse; a field the object literal omits is undefined.
TrainingJob(id, status, urls, error, output, logs, input, destinationModelId) ==
    [id |-> id, status |-> status, urls |-> urls, error |-> error, output |-> output,
     logs |-> logs, input |-> input, destinationModelId |-> destinationModelId]

\* The catch block of startTraining.
StartTrainingCatch(c, t) ==
    IF c.kind = "throw"
    THEN Return(TrainingJob("error_" \o ToString(t), JSStr("failed"), Undefined,
                            JSStr(ErrorMessage(c.error, "Unknown error occurred")),
                            Undefined, Undefined, Undefined, Undefined))
    ELSE c

\* startTraining going on to submit the training without looking at m.success.
CheckModelResultSkipped(m) == Return(Undefined)

\* startTraining after createDestinationModel returned m: the throw on a failed
\* creation, else nothing yet (the training is submitted next).
CheckModelResult(m) ==
    IF ~m.success
    THEN Throw(Err("Failed to create destination model: " \o JSString(m.error)))
    ELSE Return(Undefined)

\* A job returned without the destination model it trains into.
StartTrainingFinishOmitsDestination(o, destination) ==
    IF o.settled = "rejected" THEN Throw(o.error)
    ELSE IF o.value.isNull THEN Throw(NullReadError("id"))
    ELSE Return(TrainingJob(JSString(o.value.id), o.value.status, o.value.urls,
                            Undefined, Undefined, Undefined, Undefined, Undefined))

\* startTraining after trainings.create settled with o.
StartTrainingFinish(o, destination) ==
    IF o.settled = "rejected" THEN Throw(o.error)
    ELSE IF o.value.isNull THEN Throw(NullReadError("id"))
    ELSE Return(TrainingJob(JSString(o.value.id), o.value.status, o.value.urls,
                            Undefined, Undefined, Undefined, Undefined, destination))

-----------------------------------------------------------------------------
(* getTrainingStatus and cancelTraining                                    *)

TrainingIds == {"trn1", "trn2"}

\* getTrainingStatus converting error and logs with String(), as the
\* generation mapping does, instead of keeping strings only.
GetTrainingStatusFinishStringifies(o) ==
    IF o.settled = "rejected" THEN Throw(o.error)
    ELSE IF o.value.isNull THEN Throw(NullReadError("status"))
    ELSE Return(TrainingJob(JSString(o.value.id), o.value.status, o.value.urls,
                            JSStr(JSString(o.value.error)), o.value.output,
                            JSStr(JSString(o.value.logs)), o.value.input, Undefined))

\* getTrainingStatus after trainings.get settled with o.
GetTrainingStatusFinish(o) ==
    IF o.settled = "rejected" THEN Throw(o.error)
    ELSE IF o.value.isNull THEN Throw(NullReadError("status"))
    ELSE Return(TrainingJob(JSString(o.value.id), o.value.status, o.value.urls,
                            StringOrUndefined(o.value.error), o.value.output,
                            StringOrUndefined(o.value.logs), o.value.input, Undefined))

\* A catch block that makes up an identifier, as that of startTraining does.
GetTrainingStatusCatchSynthesizesId(c, trainingId) ==
    IF c.kind = "throw"
    THEN Return(TrainingJob("error_0", JSStr("failed"), Undefined,
                            JSStr(ErrorMessage(c.error, "Failed to get status")),
                            Undefined, Undefined, Undefined, Undefined))
    ELSE c

\* The catch block of getTrainingStatus.
GetTrainingStatusCatch(c, trainingId) ==
    IF c.kind = "throw"
    THEN Return(TrainingJob(trainingId, JSStr("failed"), Undefined,
                            JSStr(ErrorMessage(c.error, "Failed to get status")),
                            Undefined, Undefined, Undefined, Undefined))
    ELSE c

\* cancelTraining reporting success whatever the provider answered.
CancelTrainingFinishAlwaysTrue(o) == Return(TRUE)

\* cancelTraining after trainings.cancel settled with o: the try block returns
\* true, the catch block false.
CancelTrainingFinish(o) == IF o.settled = "rejected" THEN Return(FALSE) ELSE Return(TRUE)

-----------------------------------------------------------------------------
(* Prompt, dimensions and LoRA path of a generation request.               *)

\* The prompt sent to the provider: the trigger word is prepended unless it
\* is absent, empty, or already in the prompt (compared in lower case).
\* The trigger word looked for as it is written, without lower-casing.
ComposePromptCaseSensitive(prompt, triggerWord) ==
    IF /\ Supplied(triggerWord)
       /\ triggerWord[1] # ""
       /\ ~Includes(prompt, triggerWord[1])
    THEN triggerWord[1] \o ", " \o prompt
    ELSE prompt

ComposePrompt(prompt, triggerWord) ==
    IF /\ Supplied(triggerWord)
       /\ triggerWord[1] # ""
       /\ ~Includes(ToLowerCase(prompt), ToLowerCase(triggerWord[1]))
    THEN triggerWord[1] \o ", " \o prompt
    ELSE prompt

\* The table with its landscape and portrait rows exchanged.
GetDimensionsSwapped(aspectRatio) ==
    CASE aspectRatio = Some("16:9") -> [width |-> 768, height |-> 1344]
      [] aspectRatio = Some("9:16") -> [width |-> 1344, height |-> 768]
      [] aspectRatio = Some("3:4") -> [width |-> 1152, height |-> 896]
      [] aspectRatio = Some("4:3") -> [width |-> 896, height |-> 1152]
      [] OTHER -> [width |-> 1024, height |-> 1024]

\* getDimensions(aspectRatio)
GetDimensions(aspectRatio) ==
    CASE aspectRatio = Some("16:9") -> [width |-> 1344, height |-> 768]
      [] aspectRatio = Some("9:16") -> [width |-> 768, height |-> 1344]
      [] aspectRatio = Some("3:4") -> [width |-> 896, height |-> 1152]
      [] aspectRatio = Some("4:3") -> [width |-> 1152, height |-> 896]
      [] OTHER -> [width |-> 1024, height |-> 1024]

\* const width = params.width || dimensions.width
ResolveWidth(p) == NumOr(p.width, GetDimensions(p.aspectRatio).width)
\* const height = params.height || dimensions.height
ResolveHeight(p) == NumOr(p.height, GetDimensions(p.aspectRatio).height)

HuggingFace == "https://huggingface.co/"

\* The lora_url sent to the provider.
FormatLoraPath(loraPath) ==
    IF StartsWith(loraPath, HuggingFace) THEN loraPath ELSE HuggingFace \o loraPath

DefaultInferenceSteps == 28
\* LoRA scales are counted in units of 0.1
DefaultLoraScale == 10

\* A ReplicateGenerationResponse; images is empty and error undefined when
\* the object literal omits them.
GenerationResult(id, status, images, error) ==
    [id |-> id, status |-> status, images |-> images, error |-> error]

\* The image taken from the end of the output instead of its start.
FirstOutputTakesLast(output) ==
    IF output.t = "array"
    THEN IF output.a = <<>> THEN Undefined ELSE output.a[Len(output.a)]
    ELSE output

\* Array.isArray(output) ? output[0] : output
FirstOutput(output) ==
    IF output.t = "array"
    THEN IF output.a = <<>> THEN Undefined ELSE output.a[1]
    ELSE output

\* `${prefix}${Date.now()}`
Synthesized(prefix, t) == prefix \o ToString(t)

\* String(response.id || synthesized)
IdOr(id, synthesized) == IF Truthy(id) THEN JSString(id) ELSE synthesized

-----------------------------------------------------------------------------
(* generateWithTrainedModel                                                *)

\* The model-reference check and the version extraction that follows it.
ValidateModelId(replicateModelId) ==
    IF \/ ~Supplied(replicateModelId)
       \/ replicateModelId[1] = ""
       \/ ~Includes(replicateModelId[1], "/")
       \/ ~Includes(replicateModelId[1], ":")
    THEN Throw(Err("Invalid Replicate model ID format: " \o OptString(replicateModelId)
                    \o ". Expected format: owner/model:version"))
    ELSE IF LastSegment(replicateModelId[1], ":") = ""
         THEN Throw(Err("Could not extract version from replicateModelId: "
                         \o replicateModelId[1]))
         ELSE Return(JSStr(LastSegment(replicateModelId[1], ":")))

\* The argument of this.client.predictions.create(...).
PredictionsCreateRequest(p, version) ==
    [version |-> version,
     input |-> [prompt |-> ComposePrompt(p.prompt, p.triggerWord),
                width |-> ResolveWidth(p),
                height |-> ResolveHeight(p),
                num_inference_steps |-> NumOr(p.steps, DefaultInferenceSteps),
                seed |-> p.seed,
                guidance_scale |-> "3.5",
                num_outputs |-> 1,
                output_format |-> "webp",
                output_quality |-> 90]]

\* A predictions.create whose rejection is swallowed, so that the wait still follows.
PredictionCreatedSwallowsRejection(o) ==
    IF o.settled = "resolved" /\ o.value.isNull THEN Throw(NullReadError("id"))
    ELSE Return(Undefined)

\* generateWithTrainedModel after predictions.create settled with o: the
\* throw that ends the try block, else nothing yet (the wait comes next).
PredictionCreated(o) ==
    IF o.settled = "rejected" THEN Throw(o.error)
    ELSE IF o.value.isNull THEN Throw(NullReadError("id"))
    ELSE Return(Undefined)

\* A mapping without the in-progress branch: every response that is neither a
\* success with output nor a failure is an unexpected status.
MapTrainedModelResponseNoProgress(r, p, t) ==
    IF r.status = JSStr("succeeded") /\ Truthy(r.output)
    THEN GenerationResult(IdOr(r.id, Synthesized("success_", t)), "completed",
                          <<[url |-> JSStr(JSString(FirstOutput(r.output))),
                             width |-> ResolveWidth(p), height |-> ResolveHeight(p)]>>,
                          Undefined)
    ELSE IF r.status = JSStr("failed")
    THEN GenerationResult(IdOr(r.id, Synthesized("failed_", t)), "failed", <<>>,
                          JSStr("Replicate trained model generation failed"))
    ELSE GenerationResult(IdOr(r.id, Synthesized("unknown_", t)), "failed", <<>>,
                          JSStr("Unexpected response status"))

\* The response mapping of generateWithTrainedModel, for a response r that is not null.
MapTrainedModelResponse(r, p, t) ==
    IF r.status = JSStr("succeeded") /\ Truthy(r.output)
    THEN GenerationResult(IdOr(r.id, Synthesized("success_", t)), "completed",
                          <<[url |-> JSStr(JSString(FirstOutput(r.output))),
                             width |-> ResolveWidth(p), height |-> ResolveHeight(p)]>>,
                          Undefined)
    ELSE IF r.status = JSStr("failed")
    THEN GenerationResult(IdOr(r.id, Synthesized("failed_", t)), "failed", <<>>,
                          IF JSString(r.error) # ""
                          THEN JSStr(JSString(r.error))
                          ELSE JSStr("Replicate trained model generation failed"))
    ELSE IF r.status = JSStr("processing") \/ r.status = JSStr("starting")
    THEN GenerationResult(IdOr(r.id, Synthesized("processing_", t)), "processing", <<>>,
                          Undefined)
    ELSE GenerationResult(IdOr(r.id, Synthesized("unknown_", t)), "failed", <<>>,
                          JSStr("Unexpected response status: "
                                \o (IF Truthy(r.status) THEN JSString(r.status)
                                    ELSE "undefined")))

\* generateWithTrainedModel after wait settled with o.  The log line that
\* follows the await reads completedPrediction.status without a null check.
TrainedModelFinish(o, p, t) ==
    IF o.settled = "rejected" THEN Throw(o.error)
    ELSE IF o.value.isNull THEN Throw(NullReadError("status"))
    ELSE Return(MapTrainedModelResponse(o.value, p, t))

\* A catch block that passes the error on to the caller.
TrainedModelCatchRethrows(c, t) == c

\* The catch block of generateWithTrainedModel.
TrainedModelCatch(c, t) ==
    IF c.kind = "throw"
    THEN Return(GenerationResult(Synthesized("replicate_trained_err_", t), "failed", <<>>,
                    JSStr(ErrorMessage(c.error, "Replicate trained model generation failed"))))
    ELSE c

-----------------------------------------------------------------------------
(* generateWithLoRA                                                        *)

LoraRunner == "black-forest-labs/flux-dev-lora"

\* The arguments of this.client.run(model, options).
RunRequest(p) ==
    [model |-> LoraRunner,
     input |-> [prompt |-> ComposePrompt(p.prompt, p.triggerWord),
                lora_url |-> FormatLoraPath(p.loraPath),
                lora_scale |-> NumOr(p.loraScale, DefaultLoraScale),
                width |-> ResolveWidth(p),
                height |-> ResolveHeight(p),
                num_inference_steps |-> NumOr(p.steps, DefaultInferenceSteps),
                seed |-> p.seed,
                go_fast |-> TRUE,
                guidance_scale |-> "3.5",
                num_outputs |-> 1,
                output_format |-> "webp",
                output_quality |-> 90]]

\* The response mapping of generateWithLoRA, for a response r that is not null.
MapLoraResponse(r, p) ==
    IF r.status = JSStr("succeeded") /\ Truthy(r.output)
    THEN GenerationResult(JSString(r.id), "completed",
                          <<[url |-> FirstOutput(r.output),
                             width |-> ResolveWidth(p), height |-> ResolveHeight(p)]>>,
                          Undefined)
    ELSE IF r.status = JSStr("failed")
    THEN GenerationResult(JSString(r.id), "failed", <<>>,
                          IF Truthy(r.error) THEN r.error
                          ELSE JSStr("Replicate generation failed"))
    ELSE GenerationResult(JSString(r.id), "processing", <<>>, Undefined)

\* Reading the response through optional chaining: a null response has no
\* status, which the mapping takes for a prediction still in progress.
LoraFinishNullAsProcessing(o, p) ==
    IF o.settled = "rejected" THEN Throw(o.error)
    ELSE IF o.value.isNull
    THEN Return(GenerationResult("undefined", "processing", <<>>, Undefined))
    ELSE Return(MapLoraResponse(o.value, p))

\* generateWithLoRA after run settled with o.
LoraFinish(o, p) ==
    IF o.settled = "rejected" THEN Throw(o.error)
    ELSE IF o.value.isNull THEN Throw(NullReadError("id"))
    ELSE Return(MapLoraResponse(o.value, p))

\* A catch block that logs the error and throws it again, as the constructor's does.
LoraCatchRethrows(c, t) == c

\* The catch block of generateWithLoRA.
LoraCatch(c, t) ==
    IF c.kind = "throw"
    THEN Return(GenerationResult(Synthesized("replicate_err_", t), "failed", <<>>,
                                 JSStr(ErrorMessage(c.error, "Replicate generation failed"))))
    ELSE c

-----------------------------------------------------------------------------
(* getAvailableTrainers                                                    *)

Trainer(id, name, description, version, baseModel, estimatedTime, cost) ==
    [id |-> id, name |-> name, description |-> description, version |-> version,
     baseModel |-> baseModel, estimatedTime |-> estimatedTime, cost |-> cost]

\* A list whose SDXL entry names the FLUX trainer's version.
GetAvailableTrainersOneVersion ==
    <<Trainer("ostris/flux-dev-lora-trainer", "FLUX Dev LoRA Trainer",
              "Train LoRA models for FLUX.1-dev using ai-toolkit",
              FluxTrainerVersion, FLUX, "10-30 minutes", "$0.001525 per second"),
      Trainer("ostris/sdxl-lora-trainer", "SDXL LoRA Trainer",
              "Train LoRA models for Stable Diffusion XL",
              FluxTrainerVersion, SDXL, "15-45 minutes", "$0.001525 per second")>>

\* getAvailableTrainers()
GetAvailableTrainers ==
    <<Trainer("ostris/flux-dev-lora-trainer", "FLUX Dev LoRA Trainer",
              "Train LoRA models for FLUX.1-dev using ai-toolkit",
              FluxTrainerVersion, FLUX, "10-30 minutes", "$0.001525 per second"),
      Trainer("ostris/sdxl-lora-trainer", "SDXL LoRA Trainer",
              "Train LoRA models for Stable Diffusion XL",
              "latest", SDXL, "15-45 minutes", "$0.001525 per second")>>

-----------------------------------------------------------------------------
(* The requests callers make and the responses the provider gives.         *)

ZipUrls ==
    {None, Some(""), Some("https://cdn.example.com/images.zip"), Some("httpx"),
     Some("/api/zips/1"), Some("ftp://cdn.example.com/images.zip"), Some("htt"),
     Some("/api"), Some("api/zips/1"), Some("HTTPS://cdn.example.com/images.zip")}
GoodZipUrl == Some("https://cdn.example.com/images.zip")

BaseModels == {None, Some(""), Some(SDXL), Some(FLUX), Some("runwayml/stable-diffusion-v1-5")}

TrainingRequest(zipUrl, baseModel, steps, learningRate, loraRank, batchSize, resolution) ==
    [modelName |-> "My  Cat", triggerWord |-> "sks", zipUrl |-> zipUrl,
     baseModel |-> baseModel, steps |-> steps, learningRate |-> learningRate,
     loraRank |-> loraRank, batchSize |-> batchSize, resolution |-> resolution]

\* Every archive URL with every base model, with no hyperparameters or with
\* all of them; and every combination of hyperparameters with a good archive URL.
TrainingRequests ==
    {TrainingRequest(z, b, None, None, None, None, None) : z \in ZipUrls, b \in BaseModels}
    \cup {TrainingRequest(z, b, Some(500), Some(2), Some(8), Some(2), Some("768"))
            : z \in ZipUrls, b \in BaseModels}
    \cup {TrainingRequest(GoodZipUrl, b, st, lr, rk, bs, rs)
            : b \in {None, Some(SDXL)},
              st \in {None, Some(0), Some(500)},
              lr \in {None, Some(0), Some(2)},
              rk \in {None, Some(8)},
              bs \in {None, Some(2)},
              rs \in {None, Some(""), Some("768")}}

RefAlphabet == {"o", "/", ":"}

RECURSIVE StringsUpTo(_)
\* The strings over RefAlphabet of at most n characters.
StringsUpTo(n) ==
    IF n = 0 THEN {""}
    ELSE LET shorter == StringsUpTo(n - 1)
         IN shorter \cup {str \o c : str \in shorter, c \in RefAlphabet}

GoodModelRef == Some("micahp/flux-lora-cat:3f9a")
ModelRefs == {None, GoodModelRef} \cup {Some(str) : str \in StringsUpTo(MaxIdLen)}

AspectRatios == {None, Some("1:1"), Some("16:9"), Some("9:16"), Some("3:4"), Some("4:3"),
                 Some("2:1")}

GenerationRequest(prompt, triggerWord, width, height, steps, aspectRatio, seed) ==
    [prompt |-> prompt, triggerWord |-> triggerWord, width |-> width, height |-> height,
     steps |-> steps, aspectRatio |-> aspectRatio, seed |-> seed]

\* Generation requests: the prompts and trigger words, the dimensions, and
\* the steps and seeds, each varied with the others at one value.
GenerationRequests ==
    {GenerationRequest(pr, tw, None, None, None, None, None)
        : pr \in {"a photo of a dog", "photo of SKS dog", ""},
          tw \in {None, Some(""), Some("sks"), Some("Dog")}}
    \cup {GenerationRequest("a photo of a dog", Some("sks"), w, h, None, ar, None)
            : w \in {None, Some(0), Some(512)}, h \in {None, Some(768)}, ar \in AspectRatios}
    \cup {GenerationRequest("a photo of a dog", Some("sks"), None, None, st, None, sd)
            : st \in {None, Some(0), Some(50)}, sd \in {None, Some(42)}}

WithModelRef(r, ref) ==
    [prompt |-> r.prompt, triggerWord |-> r.triggerWord, width |-> r.width,
     height |-> r.height, steps |-> r.steps, aspectRatio |-> r.aspectRatio, seed |-> r.seed,
     replicateModelId |-> ref]

WithLora(r, loraPath, loraScale) ==
    [prompt |-> r.prompt, triggerWord |-> r.triggerWord, width |-> r.width,
     height |-> r.height, steps |-> r.steps, aspectRatio |-> r.aspectRatio, seed |-> r.seed,
     loraPath |-> loraPath, loraScale |-> loraScale]

BaseGenerationRequest ==
    GenerationRequest("a photo of a dog", Some("sks"), None, None, None, None, None)

TrainedModelRequests ==
    {WithModelRef(BaseGenerationRequest, ref) : ref \in ModelRefs}
    \cup {WithModelRef(r, GoodModelRef) : r \in GenerationRequests}

LoraPaths == {"micahp/cat-lora", "https://huggingface.co/micahp/cat-lora",
              "http://huggingface.co/micahp/cat-lora", ""}

LoraRequests ==
    {WithLora(BaseGenerationRequest, lp, ls) : lp \in LoraPaths, ls \in {None, Some(0), Some(8)}}
    \cup {WithLora(r, "micahp/cat-lora", None) : r \in GenerationRequests}

\* Responses of wait and run: a prediction in any state.
PredictionResponses ==
    {Response(id, st, Undefined, e, Undefined, out, Undefined)
        : id \in {JSStr("prd1"), Undefined},
          st \in ProviderStatuses,
          e \in {Undefined, JSStr("NSFW content detected"), JSObj("error")},
          out \in {Undefined,
                   JSStr("https://replicate.delivery/a.webp"),
                   JSArr(<<JSStr("https://replicate.delivery/a.webp"),
                           JSStr("https://replicate.delivery/b.webp")>>),
                   JSArr(<<>>)}}

PredictionsCreateOutcomes ==
    Rejections \cup {Resolved(NullResponse),
                     Resolved(Response(JSStr("prd1"), JSStr("starting"), JSObj("urls"),
                                       Undefined, Undefined, Undefined, JSObj("input")))}
WaitOutcomes ==
    Rejections \cup {Resolved(NullResponse)} \cup {Resolved(r) : r \in PredictionResponses}
RunOutcomes ==
    Rejections \cup {Resolved(NullResponse)} \cup {Resolved(r) : r \in PredictionResponses}

-----------------------------------------------------------------------------
(* The constructor.                                                        *)

\* The value of this.client before the constructor has assigned it.
NoClient == [built |-> FALSE, auth |-> ""]
\* new Replicate({ auth: token })
Client(token) == [built |-> TRUE, auth |-> token]

\* The token of the instance whose operations Spec follows.
ServiceToken == "r8_service"

\* The constructor's argument and the two environment variables: undefined,
\* empty, or a token.
ApiTokens == {None, Some(""), Some("r8_arg"), Some("r8"), Some(ServiceToken)}
PrimaryEnvTokens == {None, Some(""), Some("r8_env"), Some("r8"), Some(ServiceToken)}
PublicEnvTokens == {None, Some(""), Some("r8_public"), Some("r8"), Some(ServiceToken)}

Environment(primary, public) ==
    [REPLICATE_API_TOKEN |-> primary, NEXT_PUBLIC_REPLICATE_API_TOKEN |-> public]

TokenRequired ==
    Err("Replicate API token is required. Please set REPLICATE_API_TOKEN environment variable.")

\* The environment read before the argument.
ResolveTokenEnvironmentFirst(apiToken, env) ==
    StrOr(env.REPLICATE_API_TOKEN, StrOr(apiToken,
          StrOr(env.NEXT_PUBLIC_REPLICATE_API_TOKEN, "")))

\* apiToken || process.env.REPLICATE_API_TOKEN || process.env.NEXT_PUBLIC_REPLICATE_API_TOKEN;
\* a result that is undefined or empty is "", which is all `!token` tells apart.
ResolveToken(apiToken, env) ==
    StrOr(apiToken, StrOr(env.REPLICATE_API_TOKEN,
          StrOr(env.NEXT_PUBLIC_REPLICATE_API_TOKEN, "")))

\* new Replicate({ auth: token }) inside the try block, whose catch logs the
\* error and throws it again.  The provider's client stores its options and
\* does not throw.
NewReplicate(token) == Return(Client(token))

\* The constructor: how it ends, and the client it leaves in this.client.
Constructor(apiToken, env) ==
    LET token == ResolveToken(apiToken, env)
    IN IF token = "" THEN Throw(TokenRequired) ELSE NewReplicate(token)

-----------------------------------------------------------------------------
(* Calls in flight at the same time.  An async operation gives up the      *)
(* thread at its await; until the provider answers, the caller can start   *)
(* another operation on the same service object.                           *)

\* How many suspended calls are kept beside the running one.
MaxBackground == 1

AwaitPoints == {"models.create", "trainings.create", "trainings.get", "trainings.cancel",
                "predictions.create", "wait", "run"}

\* A call: the operation, where it stands, its arguments, locals and requests.
Context == [op |-> op, pc |-> pc, params |-> params, locals |-> locals,
            calls |-> calls, result |-> result]

RemoveAt(s, i) == SubSeq(s, 1, i - 1) \o SubSeq(s, i + 1, Len(s))

-----------------------------------------------------------------------------
(* The Stripe module (lib/stripe/index.ts), evaluated when it is imported. *)

DummyKey == "sk_test_DUMMYKEYFORDEVELOPMENT12345"

\* process.env as the module reads it: a variable is undefined, empty or set.
StripeEnvironments ==
    [NODE_ENV : {None, Some("development"), Some("test"), Some("production")},
     VERCEL : {None, Some(""), Some("1")},
     RAILWAY_ENVIRONMENT : {None, Some("production")},
     STRIPE_API_TOKEN : {None, Some(""), Some("sk_live_1")},
     STRIPE_PUBLISHABLE_TOKEN : {None, Some("pk_live_1")}]

\* !process.env.X
Unset(o) == ~Supplied(o) \/ o[1] = ""

\* NODE_ENV === 'production' && !VERCEL && !RAILWAY_ENVIRONMENT
IsBuildTime(env) ==
    /\ env.NODE_ENV = Some("production")
    /\ Unset(env.VERCEL)
    /\ Unset(env.RAILWAY_ENVIRONMENT)

\* The check a missing key goes through: it throws in production outside a build.
MissingKeyCheck(key, env, message) ==
    IF Unset(key) /\ env.NODE_ENV = Some("production") /\ ~IsBuildTime(env)
    THEN Throw(Err(message))
    ELSE Return(Undefined)

\* new Stripe(STRIPE_SECRET_KEY || dummy key, options)
NewStripe(env) == Client(StrOr(env.STRIPE_API_TOKEN, DummyKey))

\* The module body: how its evaluation ends and the client it has created by then.
StripeModule(env) ==
    LET secret == MissingKeyCheck(env.STRIPE_API_TOKEN, env,
                     "Missing STRIPE_API_TOKEN in environment variables for production.")
        publishable == MissingKeyCheck(env.STRIPE_PUBLISHABLE_TOKEN, env,
                     "Missing STRIPE_PUBLISHABLE_TOKEN in environment variables for production.")
    IN IF secret.kind = "throw" THEN [completion |-> secret, stripe |-> NoClient]
       ELSE [completion |-> publishable, stripe |-> NewStripe(env)]

-----------------------------------------------------------------------------
(* The provider's side and the caller's side.                              *)

\* The statuses a job does not leave.
TerminalStatuses == {"succeeded", "failed", "canceled"}

\* The provider before any request: no model created, its jobs starting.
NoProvider == [models |-> {}, jobs |-> [id \in TrainingIds |-> "starting"]]

\* A caller that has polled no training yet.
NothingSeen == [id \in TrainingIds |-> "none"]

-----------------------------------------------------------------------------
(* The state machine.                                                      *)

Init ==
    /\ op = "none"
    /\ pc = "idle"
    /\ params = <<>>
    /\ locals = <<>>
    /\ calls = <<>>
    /\ result = NoResult
    /\ now = 0
    /\ client = Client(ServiceToken)
    /\ background = <<>>
    /\ provider = NoProvider
    /\ seen = NothingSeen

\* Time passes.
Tick ==
    /\ now < MaxNow
    /\ now' = now + 1
    /\ UNCHANGED <<op, pc, params, locals, calls, result>>
    /\ UNCHANGED <<client, background, provider, seen>>

\* The operation in progress ends with completion c: it returns to its
\* caller, or raises to it.
Finish(c) ==
    /\ result' = c
    /\ pc' = IF c.kind = "throw" THEN "raised" ELSE "returned"

\* The operation in progress suspends at the await of a new provider request.
Await(endpoint, request) ==
    /\ calls' = Append(calls, Request(endpoint, request))
    /\ pc' = endpoint
    /\ result' = NoResult

\* The caller takes the result; the service is idle again.
TakeResult ==
    /\ pc \in {"returned", "raised"}
    /\ op' = "none"
    /\ pc' = "idle"
    /\ params' = <<>>
    /\ locals' = <<>>
    /\ calls' = <<>>
    /\ result' = NoResult
    /\ UNCHANGED now
    /\ UNCHANGED <<client, background, provider, seen>>

CallCreateDestinationModel ==
    /\ pc = "idle"
    /\ \E modelName \in ModelNames, description \in Descriptions, suffix \in RandomSuffixes :
          LET modelId == DeriveModelId(modelName, now, suffix)
          IN /\ op' = "createDestinationModel"
             /\ params' = [modelName |-> modelName, description |-> description]
             /\ locals' = [modelId |-> modelId]
             /\ Await("models.create", ModelsCreateRequest(modelName, description, modelId))
    /\ UNCHANGED now
    /\ UNCHANGED <<client, background, provider, seen>>

CallStartTraining ==
    /\ pc = "idle"
    /\ \E p \in TrainingRequests, suffix \in RandomSuffixes :
          LET v == ValidateZipUrl(p.zipUrl)
              modelId == DeriveModelId(p.modelName, now, suffix)
          IN /\ op' = "startTraining"
             /\ params' = p
             /\ IF v.kind = "throw"
                THEN /\ Finish(StartTrainingCatch(v, now))
                     /\ UNCHANGED <<locals, calls>>
                ELSE /\ locals' = [modelId |-> modelId]
                     /\ Await("models.create", ModelsCreateRequest(p.modelName, None, modelId))
    /\ UNCHANGED now
    /\ UNCHANGED <<client, background, provider, seen>>

\* models.create settles: createDestinationModel returns, and startTraining,
\* when it is the caller, goes on to submit the training.
ModelsCreateSettle ==
    /\ pc = "models.create"
    /\ \E o \in ModelsCreateOutcomes :
          LET m == CreateDestinationModelResult(o, locals.modelId)
              c == CheckModelResult(m)
          IN IF op = "createDestinationModel"
             THEN /\ Finish(Return(m))
                  /\ calls' = Settle(calls, o)
             ELSE IF c.kind = "throw"
             THEN /\ Finish(StartTrainingCatch(c, now))
                  /\ calls' = Settle(calls, o)
             ELSE /\ calls' = Append(Settle(calls, o),
                                     Request("trainings.create",
                                             TrainingsCreateRequest(params, m.modelId)))
                  /\ pc' = "trainings.create"
                  /\ result' = NoResult
    /\ UNCHANGED <<op, params, locals, now>>
    /\ UNCHANGED <<client, background, provider, seen>>

TrainingsCreateSettle ==
    /\ pc = "trainings.create"
    /\ \E o \in TrainingsCreateOutcomes :
          /\ Finish(StartTrainingCatch(
                        StartTrainingFinish(o, calls[Len(calls)].request.destination), now))
          /\ calls' = Settle(calls, o)
    /\ UNCHANGED <<op, params, locals, now>>
    /\ UNCHANGED <<client, background, provider, seen>>

CallGetTrainingStatus ==
    /\ pc = "idle"
    /\ \E trainingId \in TrainingIds :
          /\ op' = "getTrainingStatus"
          /\ params' = [trainingId |-> trainingId]
          /\ Await("trainings.get", trainingId)
    /\ UNCHANGED <<locals, now>>
    /\ UNCHANGED <<client, background, provider, seen>>

TrainingsGetSettle ==
    /\ pc = "trainings.get"
    /\ \E o \in TrainingsGetOutcomes :
          /\ Finish(GetTrainingStatusCatch(GetTrainingStatusFinish(o), params.trainingId))
          /\ calls' = Settle(calls, o)
    /\ UNCHANGED <<op, params, locals, now>>
    /\ UNCHANGED <<client, background, provider, seen>>

CallCancelTraining ==
    /\ pc = "idle"
    /\ \E trainingId \in TrainingIds :
          /\ op' = "cancelTraining"
          /\ params' = [trainingId |-> trainingId]
          /\ Await("trainings.cancel", trainingId)
    /\ UNCHANGED <<locals, now>>
    /\ UNCHANGED <<client, background, provider, seen>>

TrainingsCancelSettle ==
    /\ pc = "trainings.cancel"
    /\ \E o \in TrainingsCancelOutcomes :
          /\ Finish(CancelTrainingFinish(o))
          /\ calls' = Settle(calls, o)
    /\ UNCHANGED <<op, params, locals, now>>
    /\ UNCHANGED <<client, background, provider, seen>>

CallGenerateWithTrainedModel ==
    /\ pc = "idle"
    /\ \E p \in TrainedModelRequests :
          LET v == ValidateModelId(p.replicateModelId)
          IN /\ op' = "generateWithTrainedModel"
             /\ params' = p
             /\ IF v.kind = "throw"
                THEN /\ Finish(TrainedModelCatch(v, now))
                     /\ UNCHANGED <<locals, calls>>
                ELSE /\ locals' = [version |-> v.value.s]
                     /\ Await("predictions.create", PredictionsCreateRequest(p, v.value.s))
    /\ UNCHANGED now
    /\ UNCHANGED <<client, background, provider, seen>>

PredictionsCreateSettle ==
    /\ pc = "predictions.create"
    /\ \E o \in PredictionsCreateOutcomes :
          LET c == PredictionCreated(o)
          IN IF c.kind = "throw"
             THEN /\ Finish(TrainedModelCatch(c, now))
                  /\ calls' = Settle(calls, o)
             ELSE /\ calls' = Append(Settle(calls, o), Request("wait", o.value))
                  /\ pc' = "wait"
                  /\ result' = NoResult
    /\ UNCHANGED <<op, params, locals, now>>
    /\ UNCHANGED <<client, background, provider, seen>>

WaitSettle ==
    /\ pc = "wait"
    /\ \E o \in WaitOutcomes :
          /\ Finish(TrainedModelCatch(TrainedModelFinish(o, params, now), now))
          /\ calls' = Settle(calls, o)
    /\ UNCHANGED <<op, params, locals, now>>
    /\ UNCHANGED <<client, background, provider, seen>>

CallGenerateWithLoRA ==
    /\ pc = "idle"
    /\ \E p \in LoraRequests :
          /\ op' = "generateWithLoRA"
          /\ params' = p
          /\ Await("run", RunRequest(p))
    /\ UNCHANGED <<locals, now>>
    /\ UNCHANGED <<client, background, provider, seen>>

RunSettle ==
    /\ pc = "run"
    /\ \E o \in RunOutcomes :
          /\ Finish(LoraCatch(LoraFinish(o, params), now))
          /\ calls' = Settle(calls, o)
    /\ UNCHANGED <<op, params, locals, now>>
    /\ UNCHANGED <<client, background, provider, seen>>

\* A suspension that leaves the request log where it is, as a log kept in a
\* field of the service object would be.
SwitchSharesCalls ==
    /\ pc \in AwaitPoints
    /\ Len(background) < MaxBackground
    /\ background' = Append(background, Context)
    /\ op' = "none"
    /\ pc' = "idle"
    /\ params' = <<>>
    /\ locals' = <<>>
    /\ result' = NoResult
    /\ UNCHANGED <<calls, now, client, provider, seen>>

\* The call in progress is suspended at its await and the caller goes on:
\* the service is free to take another call.
Switch ==
    /\ pc \in AwaitPoints
    /\ Len(background) < MaxBackground
    /\ background' = Append(background, Context)
    /\ op' = "none"
    /\ pc' = "idle"
    /\ params' = <<>>
    /\ locals' = <<>>
    /\ calls' = <<>>
    /\ result' = NoResult
    /\ UNCHANGED <<now, client, provider, seen>>

\* The event loop turns to a suspended call; the call that was in progress,
\* if it stands at an await, is suspended in its place.
Resume ==
    /\ pc = "idle" \/ pc \in AwaitPoints
    /\ \E i \in 1..Len(background) :
          /\ op' = background[i].op
          /\ pc' = background[i].pc
          /\ params' = background[i].params
          /\ locals' = background[i].locals
          /\ calls' = background[i].calls
          /\ result' = background[i].result
          /\ background' = IF pc = "idle" THEN RemoveAt(background, i)
                           ELSE [background EXCEPT ![i] = Context]
    /\ UNCHANGED <<now, client, provider, seen>>

\* new ReplicateService(apiToken) in an environment.
Construct ==
    /\ pc = "idle"
    /\ ~client.built
    /\ \E apiToken \in ApiTokens, primary \in PrimaryEnvTokens, public \in PublicEnvTokens :
          LET env == Environment(primary, public)
              c == Constructor(apiToken, env)
          IN /\ op' = "constructor"
             /\ params' = [apiToken |-> apiToken, env |-> env]
             /\ client' = IF c.kind = "return" THEN c.value ELSE NoClient
             /\ Finish(IF c.kind = "return" THEN Return(Undefined) ELSE c)
    /\ UNCHANGED <<locals, calls, now, background, provider, seen>>

\* The service object is dropped.
Discard ==
    /\ pc = "idle"
    /\ client.built
    /\ client' = NoClient
    /\ UNCHANGED <<op, pc, params, locals, calls, result, now, background, provider, seen>>

\* A training job moves on at the provider: from starting to processing, and
\* from either to a terminal status, which it does not leave.
ProviderAdvance ==
    /\ \E id \in TrainingIds, st \in {"processing"} \cup TerminalStatuses :
          /\ provider.jobs[id] \notin TerminalStatuses
          /\ provider.jobs[id] # st
          /\ provider' = [provider EXCEPT !.jobs[id] = st]
    /\ UNCHANGED <<op, pc, params, locals, calls, result, now, client, background, seen>>

\* trainings.get settles for a provider that answers with the job's status.
PollSettle ==
    /\ TrainingsGetSettle
    /\ calls'[1].outcome = "resolved" =>
          \/ calls'[1].response.isNull
          \/ calls'[1].response.status = JSStr(provider.jobs[params.trainingId])

\* The caller of getTrainingStatus takes the returned job and keeps its status.
TakeStatus ==
    /\ op = "getTrainingStatus"
    /\ pc = "returned"
    /\ seen' = [seen EXCEPT ![params.trainingId] = result.value.status.s]
    /\ op' = "none"
    /\ pc' = "idle"
    /\ params' = <<>>
    /\ locals' = <<>>
    /\ calls' = <<>>
    /\ result' = NoResult
    /\ UNCHANGED <<now, client, background, provider>>

\* The provider creates the model a pending models.create asks for.
ProviderCreatesModel ==
    /\ pc = "models.create"
    /\ LET r == calls[Len(calls)].request
       IN /\ (r.owner \o "/" \o r.name) \notin provider.models
          /\ provider' = [provider EXCEPT !.models = @ \cup {r.owner \o "/" \o r.name}]
    /\ UNCHANGED <<op, pc, params, locals, calls, result, now, client, background, seen>>

\* models.create settles for a provider that resolves it only once the model exists.
ModelsCreateAnswered ==
    /\ ModelsCreateSettle
    /\ calls'[1].outcome = "resolved" =>
          (calls[1].request.owner \o "/" \o calls[1].request.name) \in provider.models

\* The Stripe module is imported in an environment.
LoadStripeModule ==
    /\ pc = "idle"
    /\ ~client.built
    /\ \E env \in StripeEnvironments :
          /\ op' = "stripe"
          /\ params' = env
          /\ client' = StripeModule(env).stripe
          /\ Finish(StripeModule(env).completion)
    /\ UNCHANGED <<locals, calls, now, background, provider, seen>>

Next ==
    \/ Tick
    \/ TakeResult
    \/ CallCreateDestinationModel
    \/ CallStartTraining
    \/ ModelsCreateSettle
    \/ TrainingsCreateSettle
    \/ CallGetTrainingStatus
    \/ TrainingsGetSettle
    \/ CallCancelTraining
    \/ TrainingsCancelSettle
    \/ CallGenerateWithTrainedModel
    \/ PredictionsCreateSettle
    \/ WaitSettle
    \/ CallGenerateWithLoRA
    \/ RunSettle

Spec == Init /\ [][Next]_vars

-----------------------------------------------------------------------------
(* Vocabulary of the properties.                                           *)

PublicOperations ==
    {"startTraining", "getTrainingStatus", "cancelTraining", "generateWithTrainedModel",
     "generateWithLoRA", "createDestinationModel"}

\* s begins with p
BeginsWith(s, p) == \E k \in 0..Len(s) : SubSeq(s, 1, k) = p

\* The i-th provider request of the operation in progress names this endpoint.
Requested(i, endpoint) == i \in DOMAIN calls /\ calls[i].endpoint = endpoint

\* The operation in progress has returned a result that reports failure.
ReturnedFailure ==
    /\ pc = "returned"
    /\ result.kind = "return"
    /\ CASE op \in {"startTraining", "getTrainingStatus"} -> result.value.status = JSStr("failed")
         [] op \in {"generateWithTrainedModel", "generateWithLoRA"} -> result.value.status = "failed"
         [] op = "createDestinationModel" -> result.value.success = FALSE
         [] op = "cancelTraining" -> result.value = FALSE
         [] OTHER -> FALSE

\* Two optional values agree: they are equal, or both are absent (null or undefined).
SameValue(x, y) == x = y \/ (x.t \in {"null", "undefined"} /\ y.t \in {"null", "undefined"})

-----------------------------------------------------------------------------
(* C1: whatever the input and whatever the provider does (reject, resolve   *)
(* to null, resolve to a response with any fields), each of the six public *)
(* asynchronous operations ends by returning a result value; none of them  *)
(* ever raises to its caller.                                              *)
C1_NeverRaises ==
    op \in PublicOperations =>
        /\ pc # "raised"
        /\ result.kind # "throw"
        /\ pc = "returned" => result.kind = "return"

\* generateWithLoRA has returned a failed result although run resolved to null.
C1_Witness ==
    /\ op = "generateWithLoRA"
    /\ pc = "returned"
    /\ calls[1].outcome = "resolved"
    /\ calls[1].response.isNull
    /\ result.value.status = "failed"

(* C2: startTraining called with a zipUrl that is empty, undefined, or     *)
(* that begins with neither 'http' nor '/api/' returns a TrainingJob with  *)
(* status 'failed', and no provider request is made during that call.      *)
BadZipUrl(zipUrl) ==
    \/ zipUrl = None
    \/ zipUrl = Some("")
    \/ ~BeginsWith(zipUrl[1], "http") /\ ~BeginsWith(zipUrl[1], "/api/")

C2_BadZipUrlFailsWithoutRequest ==
    (op = "startTraining" /\ BadZipUrl(params.zipUrl)) =>
        /\ calls = <<>>
        /\ pc = "returned"
        /\ result.kind = "return"
        /\ result.value.status = JSStr("failed")

\* startTraining has returned for an archive URL that is present but of neither form.
C2_Witness ==
    /\ op = "startTraining"
    /\ pc = "returned"
    /\ params.zipUrl # None
    /\ params.zipUrl # Some("")
    /\ BadZipUrl(params.zipUrl)
    /\ result.value.status = JSStr("failed")

(* C3: in every startTraining call models.create comes before              *)
(* trainings.create; if the creation of the destination model fails,       *)
(* trainings.create is never called and the call returns a 'failed'        *)
(* TrainingJob whose error wraps the provider's creation error.            *)
C3_ModelBeforeTraining ==
    op = "startTraining" =>
        /\ \A i \in DOMAIN calls :
              calls[i].endpoint = "trainings.create" =>
                  \E j \in 1..(i - 1) :
                      calls[j].endpoint = "models.create" /\ calls[j].outcome # "pending"
        /\ (Requested(1, "models.create") /\ calls[1].outcome = "rejected") =>
              /\ \A i \in DOMAIN calls : calls[i].endpoint # "trainings.create"
              /\ pc = "returned"
              /\ result.kind = "return"
              /\ result.value.status = JSStr("failed")
              /\ result.value.error.t = "string"
              /\ BeginsWith(result.value.error.s, "Failed to create destination model: ")
              /\ calls[1].error.isError =>
                    result.value.error.s =
                        "Failed to create destination model: " \o calls[1].error.message

\* startTraining has returned after models.create rejected with an Error.
C3_Witness ==
    /\ op = "startTraining"
    /\ pc = "returned"
    /\ Requested(1, "models.create")
    /\ calls[1].outcome = "rejected"
    /\ calls[1].error.isError
    /\ result.value.status = JSStr("failed")

(* C4: no operation retries: within one call each provider endpoint is     *)
(* invoked at most once, and after the first provider failure no further   *)
(* provider request is made before the failed result is returned.          *)
C4_NoRetries ==
    /\ \A i, j \in DOMAIN calls : calls[i].endpoint = calls[j].endpoint => i = j
    /\ \A i \in DOMAIN calls :
          calls[i].outcome = "rejected" => (i = Len(calls) /\ ReturnedFailure)

\* generateWithTrainedModel has returned after its second request, the wait, rejected.
C4_Witness ==
    /\ op = "generateWithTrainedModel"
    /\ Len(calls) = 2
    /\ calls[1].outcome = "resolved"
    /\ calls[2].outcome = "rejected"
    /\ ReturnedFailure

(* C5: the trainer is a total function of baseModel: exactly the SDXL      *)
(* identifier selects ostris/sdxl-lora-trainer; every other value, absent  *)
(* included, selects ostris/flux-dev-lora-trainer at its fixed version     *)
(* and, when the caller supplies no hyperparameters, submits steps=1000,   *)
(* lora_rank=16 and resolution="512,768,1024".                             *)
NoHyperparameters(p) ==
    /\ p.steps = None
    /\ p.loraRank = None
    /\ p.batchSize = None
    /\ p.resolution = None
    /\ p.learningRate = None

C5_TrainerSelection ==
    (op = "startTraining" /\ Requested(2, "trainings.create")) =>
        LET r == calls[2].request
        IN IF params.baseModel = Some("stabilityai/stable-diffusion-xl-base-1.0")
           THEN r.owner = "ostris" /\ r.name = "sdxl-lora-trainer"
           ELSE /\ r.owner = "ostris"
                /\ r.name = "flux-dev-lora-trainer"
                /\ r.version = "c6e78d2501e8088876e99ef21e4460d0dc121af7a4b786b9a4c2d75c620e300d"
                /\ NoHyperparameters(params) =>
                      /\ r.input.steps = 1000
                      /\ r.input.lora_rank = 16
                      /\ r.input.resolution = "512,768,1024"

\* A training was submitted for an absent base model and no hyperparameters.
C5_Witness ==
    /\ op = "startTraining"
    /\ Requested(2, "trainings.create")
    /\ params.baseModel = None
    /\ NoHyperparameters(params)
    /\ calls[2].request.name = "flux-dev-lora-trainer"

(* C6: when models.create and trainings.create both succeed, startTraining *)
(* returns a TrainingJob whose id is the provider's training id, whose     *)
(* status and urls are the provider's, and whose destinationModelId is the *)
(* owner/modelId pair passed to models.create and used as the training     *)
(* destination in the same call.                                           *)
C6_SuccessfulStart ==
    (/\ op = "startTraining"
     /\ Requested(2, "trainings.create")
     /\ calls[1].outcome = "resolved"
     /\ calls[2].outcome = "resolved"
     /\ ~calls[2].response.isNull) =>
        /\ pc = "returned"
        /\ result.kind = "return"
        /\ JSStr(result.value.id) = calls[2].response.id
        /\ result.value.status = calls[2].response.status
        /\ result.value.urls = calls[2].response.urls
        /\ result.value.destinationModelId =
              JSStr(calls[1].request.owner \o "/" \o calls[1].request.name)
        /\ result.value.destinationModelId = calls[2].request.destination

\* startTraining has returned a processing job with its destination model.
C6_Witness ==
    /\ op = "startTraining"
    /\ pc = "returned"
    /\ Requested(2, "trainings.create")
    /\ calls[2].outcome = "resolved"
    /\ ~calls[2].response.isNull
    /\ result.value.status = JSStr("processing")
    /\ result.value.destinationModelId.t = "string"

(* C7: every TrainingJob returned by startTraining or getTrainingStatus    *)
(* has a status in {starting, processing, succeeded, failed, canceled},    *)
(* whatever status the provider's response carries.                        *)
C7_StatusInEnumeration ==
    (op \in {"startTraining", "getTrainingStatus"} /\ pc = "returned") =>
        /\ result.value.status.t = "string"
        /\ result.value.status.s \in {"starting", "processing", "succeeded", "failed", "canceled"}

(* C8, as claimed: getTrainingStatus never raises; when the fetch rejects  *)
(* it returns a 'failed' TrainingJob carrying the fetch error's message;   *)
(* when the fetch succeeds it maps the provider's status, error and logs   *)
(* verbatim into the returned TrainingJob.                                 *)
C8_FetchRejected ==
    calls[1].outcome = "rejected" =>
        /\ result.value.status = JSStr("failed")
        /\ result.value.error.t = "string"
        /\ calls[1].error.isError => result.value.error.s = calls[1].error.message

C8_VerbatimStatusErrorLogs ==
    (op = "getTrainingStatus" /\ pc # "trainings.get") =>
        /\ pc = "returned"
        /\ result.kind = "return"
        /\ C8_FetchRejected
        /\ (calls[1].outcome = "resolved" /\ ~calls[1].response.isNull) =>
              /\ result.value.status = calls[1].response.status
              /\ SameValue(result.value.error, calls[1].response.error)
              /\ SameValue(result.value.logs, calls[1].response.logs)

(* C8, amended: getTrainingStatus never raises; when the fetch rejects it  *)
(* returns a 'failed' TrainingJob carrying the fetch error's message; when *)
(* the fetch yields a response it maps the provider's status verbatim, and *)
(* the provider's error and logs verbatim when they are strings: an error  *)
(* or logs value that is not a string is left out of the TrainingJob.      *)
C8_VerbatimStringsOnly ==
    (op = "getTrainingStatus" /\ pc # "trainings.get") =>
        /\ pc = "returned"
        /\ result.kind = "return"
        /\ C8_FetchRejected
        /\ (calls[1].outcome = "resolved" /\ ~calls[1].response.isNull) =>
              LET r == calls[1].response
              IN /\ result.value.status = r.status
                 /\ result.value.error = (IF r.error.t = "string" THEN r.error ELSE Undefined)
                 /\ result.value.logs = (IF r.logs.t = "string" THEN r.logs ELSE Undefined)

\* getTrainingStatus has returned a job whose provider error is an object
\* and whose logs are a string: the logs are kept, the error is left out.
C8_Witness ==
    /\ op = "getTrainingStatus"
    /\ pc = "returned"
    /\ calls[1].outcome = "resolved"
    /\ ~calls[1].response.isNull
    /\ calls[1].response.error.t = "object"
    /\ calls[1].response.logs.t = "string"
    /\ result.value.error = Undefined
    /\ result.value.logs = calls[1].response.logs

(* C9: cancelTraining returns true exactly when the provider's cancel call *)
(* resolved and false exactly when it rejected; it never raises.           *)
C9_CancelResult ==
    (op = "cancelTraining" /\ pc # "trainings.cancel") =>
        /\ pc = "returned"
        /\ result.kind = "return"
        /\ result.value \in BOOLEAN
        /\ result.value = TRUE <=> calls[1].outcome = "resolved"
        /\ result.value = FALSE <=> calls[1].outcome = "rejected"

\* cancelTraining has returned false after the provider rejected the cancellation.
C9_Witness ==
    /\ op = "cancelTraining"
    /\ pc = "returned"
    /\ calls[1].outcome = "rejected"
    /\ result.value = FALSE

(* C10: generateWithTrainedModel called with a model reference that is not *)
(* well-formed (it does not name an owner/model pair followed by a colon   *)
(* and a non-empty version) returns a 'failed' result, and neither         *)
(* predictions.create nor wait is called during that call.                 *)
CharAt(s, i) == SubSeq(s, i, i)

\* owner/model:version, with owner, model and version non-empty; the colon
\* that ends the pair is the first one.
WellFormedRef(ref) ==
    /\ ref # None
    /\ \E i, j \in 1..Len(ref[1]) :
          /\ CharAt(ref[1], i) = "/"
          /\ CharAt(ref[1], j) = ":"
          /\ \A k \in 1..(j - 1) : CharAt(ref[1], k) # ":"
          /\ 1 < i
          /\ i + 1 < j
          /\ j < Len(ref[1])

C10_MalformedRefFailsWithoutRequest ==
    (op = "generateWithTrainedModel" /\ ~WellFormedRef(params.replicateModelId)) =>
        /\ calls = <<>>
        /\ pc = "returned"
        /\ result.kind = "return"
        /\ result.value.status = "failed"


-----------------------------------------------------------------------------
\* The operation in progress is a generation whose last provider request
\* (wait, or run) resolved to a response object.
GenerationAnswered ==
    /\ op \in {"generateWithTrainedModel", "generateWithLoRA"}
    /\ calls # <<>>
    /\ calls[Len(calls)].endpoint \in {"wait", "run"}
    /\ calls[Len(calls)].outcome = "resolved"
    /\ ~calls[Len(calls)].response.isNull

\* That response.
Answer == calls[Len(calls)].response

(* C11: in both generation modes a provider response with status           *)
(* 'succeeded' and a sequence output of length at least 1 maps to a        *)
(* GenerationResult with status 'completed' and exactly one image, whose   *)
(* url is the first output element.                                        *)
C11_SucceededSequence ==
    (/\ GenerationAnswered
     /\ Answer.status = JSStr("succeeded")
     /\ Answer.output.t = "array"
     /\ Len(Answer.output.a) >= 1) =>
        /\ pc = "returned"
        /\ result.kind = "return"
        /\ result.value.status = "completed"
        /\ Len(result.value.images) = 1
        /\ result.value.images[1].url = Answer.output.a[1]

\* generateWithTrainedModel has returned the first of two output URLs.
C11_Witness ==
    /\ GenerationAnswered
    /\ op = "generateWithTrainedModel"
    /\ pc = "returned"
    /\ Answer.status = JSStr("succeeded")
    /\ Answer.output.t = "array"
    /\ Len(Answer.output.a) = 2
    /\ result.value.images[1].url = Answer.output.a[1]


(* C12: in both generation modes a provider response with status 'failed'  *)
(* maps to a GenerationResult with status 'failed' whose error is the      *)
(* provider's error message when the provider supplies one, and a generic  *)
(* failure message when it supplies none.                                  *)
GenericFailureMessages ==
    {"Replicate trained model generation failed", "Replicate generation failed"}

C12_FailedKeepsProviderMessage ==
    (GenerationAnswered /\ Answer.status = JSStr("failed")) =>
        /\ pc = "returned"
        /\ result.kind = "return"
        /\ result.value.status = "failed"
        /\ Answer.error.t = "string" => result.value.error = Answer.error
        /\ Answer.error.t \in {"undefined", "null"} =>
              /\ result.value.error.t = "string"
              /\ result.value.error.s \in GenericFailureMessages


(* C13: generateWithLoRA applies the response-mapping rules of             *)
(* generateWithTrainedModel: for every provider response (status           *)
(* starting, processing, succeeded, failed, canceled or absent, output     *)
(* present or absent) the two operations return the same status.           *)
C13_SameMapping ==
    (/\ GenerationAnswered
     /\ pc = "returned"
     /\ Answer.status \in {JSStr(st) : st \in TrainingStatuses} \cup {Undefined}) =>
        /\ result.value.status = MapTrainedModelResponse(Answer, params, now).status
        /\ result.value.status = MapLoraResponse(Answer, params).status


GenerationReturned ==
    /\ op \in {"generateWithTrainedModel", "generateWithLoRA"}
    /\ pc = "returned"
    /\ result.kind = "return"

InProgress(r) == r.status \in {JSStr("starting"), JSStr("processing")}

(* C14: every GenerationResult returned by either generation operation has *)
(* status completed, failed or processing and carries images only when its *)
(* status is completed; a provider response in an in-progress state        *)
(* (starting, processing) maps to processing with no images.               *)
C14_ResultShape ==
    GenerationReturned =>
        /\ result.value.status \in {"completed", "failed", "processing"}
        /\ result.value.images # <<>> => result.value.status = "completed"
        /\ (GenerationAnswered /\ InProgress(Answer)) =>
              /\ result.value.status = "processing"
              /\ result.value.images = <<>>

C14_Witness ==
    /\ GenerationReturned
    /\ op = "generateWithTrainedModel"
    /\ GenerationAnswered
    /\ Answer.status = JSStr("starting")
    /\ result.value.status = "processing"
    /\ result.value.images = <<>>


NullAnswered ==
    /\ op \in {"generateWithTrainedModel", "generateWithLoRA"}
    /\ calls # <<>>
    /\ calls[Len(calls)].outcome = "resolved"
    /\ calls[Len(calls)].response.isNull

-----------------------------------------------------------------------------
(* Destination models created by calls that overlap.                       *)

NextModelIds ==
    \/ Tick
    \/ TakeResult
    \/ CallCreateDestinationModel
    \/ ModelsCreateSettle
    \/ Switch
    \/ Resume

SpecModelIds == Init /\ [][NextModelIds]_vars

(* C16: any two createDestinationModel calls, two concurrent calls and two *)
(* calls with identical model names included, submit different model       *)
(* identifiers to the provider.                                            *)
C16_DistinctModelIds ==
    \A i \in 1..Len(background) :
        (/\ op = "createDestinationModel"
         /\ background[i].op = "createDestinationModel"
         /\ calls # <<>>) =>
            calls[1].request.name # background[i].calls[1].request.name


\* A generation request has gone to the provider.
GenerationSent ==
    /\ op \in {"generateWithTrainedModel", "generateWithLoRA"}
    /\ calls # <<>>
    /\ calls[1].endpoint \in {"predictions.create", "run"}

SentInput == calls[1].request.input

\* The aspect-ratio table of the interface: <<width, height>>.
TableDimensions(aspectRatio) ==
    IF aspectRatio = Some("1:1") THEN <<1024, 1024>>
    ELSE IF aspectRatio = Some("16:9") THEN <<1344, 768>>
    ELSE IF aspectRatio = Some("9:16") THEN <<768, 1344>>
    ELSE IF aspectRatio = Some("3:4") THEN <<896, 1152>>
    ELSE IF aspectRatio = Some("4:3") THEN <<1152, 896>>
    ELSE <<1024, 1024>>

(* C17, as stated: in both generation modes an explicitly supplied width   *)
(* or height is the value sent to the provider, and a dimension that is    *)
(* not supplied is taken from the aspect-ratio table, an unrecognized or   *)
(* absent aspect ratio resolving to 1024x1024.                             *)
C17_SuppliedDimensionsSent ==
    GenerationSent =>
        /\ SentInput.width = IF Supplied(params.width) THEN params.width[1]
                             ELSE TableDimensions(params.aspectRatio)[1]
        /\ SentInput.height = IF Supplied(params.height) THEN params.height[1]
                              ELSE TableDimensions(params.aspectRatio)[2]

(* C17, amended: a supplied width or height other than 0 is the value sent *)
(* to the provider; a dimension that is not supplied, or supplied as 0, is *)
(* taken from the aspect-ratio table (1:1 -> 1024x1024, 16:9 -> 1344x768,  *)
(* 9:16 -> 768x1344, 3:4 -> 896x1152, 4:3 -> 1152x896), an unrecognized or *)
(* absent aspect ratio resolving to 1024x1024.                             *)
C17_NonZeroDimensionsSent ==
    GenerationSent =>
        /\ SentInput.width = IF Supplied(params.width) /\ params.width[1] # 0
                             THEN params.width[1]
                             ELSE TableDimensions(params.aspectRatio)[1]
        /\ SentInput.height = IF Supplied(params.height) /\ params.height[1] # 0
                              THEN params.height[1]
                              ELSE TableDimensions(params.aspectRatio)[2]

C17_Witness ==
    /\ GenerationSent
    /\ op = "generateWithLoRA"
    /\ params.width = Some(512)
    /\ params.height = None
    /\ params.aspectRatio = Some("9:16")
    /\ SentInput.width = 512
    /\ SentInput.height = 1344


\* t occurs in s, letters compared without regard to case.
CaseInsensitiveSubstring(t, s) ==
    \E lt \in {ToLowerCase(t)}, ls \in {ToLowerCase(s)} :
        \E i \in 1..(Len(ls) - Len(lt) + 1) : SubSeq(ls, i, i + Len(lt) - 1) = lt

(* C18: the prompt sent to the provider is '<trigger>, <prompt>' exactly    *)
(* when the trigger word is supplied and is not a case-insensitive         *)
(* substring of the prompt, and the prompt itself otherwise; composing the *)
(* sent prompt with the same trigger word again leaves it unchanged.       *)
C18_PromptComposition ==
    GenerationSent =>
        /\ SentInput.prompt =
              IF /\ Supplied(params.triggerWord)
                 /\ ~CaseInsensitiveSubstring(params.triggerWord[1], params.prompt)
              THEN params.triggerWord[1] \o ", " \o params.prompt
              ELSE params.prompt
        /\ ComposePrompt(SentInput.prompt, params.triggerWord) = SentInput.prompt

C18_Witness ==
    /\ GenerationSent
    /\ params.prompt = "photo of SKS dog"
    /\ params.triggerWord = Some("sks")
    /\ SentInput.prompt = "photo of SKS dog"


\* A path that is a URL already: it names its scheme and host.
FullyQualified(path) == BeginsWith(path, "https://") \/ BeginsWith(path, "http://")

(* C19: generateWithLoRA sends the LoRA weights path unchanged when it is  *)
(* already a fully qualified URL and otherwise as that path under          *)
(* 'https://huggingface.co/'; formatting the sent path again leaves it     *)
(* unchanged.                                                              *)
C19_LoraPathFormatting ==
    (GenerationSent /\ op = "generateWithLoRA") =>
        /\ SentInput.lora_url = IF FullyQualified(params.loraPath)
                                THEN params.loraPath
                                ELSE "https://huggingface.co/" \o params.loraPath
        /\ FormatLoraPath(SentInput.lora_url) = SentInput.lora_url


-----------------------------------------------------------------------------
(* Construction of the service.                                            *)

InitConstruction ==
    /\ op = "none"
    /\ pc = "idle"
    /\ params = <<>>
    /\ locals = <<>>
    /\ calls = <<>>
    /\ result = NoResult
    /\ now = 0
    /\ client = NoClient
    /\ background = <<>>
    /\ provider = NoProvider
    /\ seen = NothingSeen

NextConstruction ==
    \/ Construct
    \/ TakeResult
    \/ Discard

SpecConstruction == InitConstruction /\ [][NextConstruction]_vars

\* A credential source holds a token: it is defined and not empty.
Present(o) == Supplied(o) /\ o[1] # ""

RequestCount(endpoint) == Cardinality({i \in DOMAIN calls : calls[i].endpoint = endpoint})

(* C21: generateWithTrainedModel waits for completion at most once per     *)
(* call, and only after predictions.create has resolved; when              *)
(* predictions.create rejects, wait is never called and the call returns a *)
(* failed result.                                                          *)
C21_OneWaitAfterCreate ==
    op = "generateWithTrainedModel" =>
        /\ RequestCount("wait") <= 1
        /\ \A i \in DOMAIN calls :
              calls[i].endpoint = "wait" =>
                 /\ i = 2
                 /\ calls[1].endpoint = "predictions.create"
                 /\ calls[1].outcome = "resolved"
        /\ (Requested(1, "predictions.create") /\ calls[1].outcome = "rejected") =>
              /\ RequestCount("wait") = 0
              /\ ReturnedFailure

C21_Witness ==
    /\ op = "generateWithTrainedModel"
    /\ Requested(1, "predictions.create")
    /\ calls[1].outcome = "rejected"
    /\ Len(calls) = 1
    /\ ReturnedFailure


-----------------------------------------------------------------------------
(* Operations on one service object that overlap.                          *)

NextConcurrent ==
    \/ TakeResult
    \/ CallCreateDestinationModel
    \/ ModelsCreateSettle
    \/ CallGetTrainingStatus
    \/ TrainingsGetSettle
    \/ CallCancelTraining
    \/ TrainingsCancelSettle
    \/ Switch
    \/ Resume

SpecConcurrent == Init /\ [][NextConcurrent]_vars

\* How the provider settled request c, read back from the log.
OutcomeOf(c) == IF c.outcome = "resolved" THEN Resolved(c.response) ELSE Rejected(c.error)

\* The one request an operation of a single request makes, from its own arguments.
OwnRequest ==
    CASE op = "createDestinationModel" ->
            Request("models.create",
                    ModelsCreateRequest(params.modelName, params.description, locals.modelId))
      [] op = "getTrainingStatus" -> Request("trainings.get", params.trainingId)
      [] op = "cancelTraining" -> Request("trainings.cancel", params.trainingId)

\* The result the operation gives when it runs alone with these arguments
\* and this answer to its request.
ResultAlone ==
    CASE op = "createDestinationModel" ->
            Return(CreateDestinationModelResult(OutcomeOf(calls[1]), locals.modelId))
      [] op = "getTrainingStatus" ->
            GetTrainingStatusCatch(GetTrainingStatusFinish(OutcomeOf(calls[1])),
                                   params.trainingId)
      [] op = "cancelTraining" -> CancelTrainingFinish(OutcomeOf(calls[1]))

TrainingSubmitted == op = "startTraining" /\ Requested(2, "trainings.create")

SentTraining == calls[2].request.input

SdxlProfile == params.baseModel = Some("stabilityai/stable-diffusion-xl-base-1.0")

SentSteps == IF SdxlProfile THEN SentTraining.max_train_steps ELSE SentTraining.steps

\* The resolution a profile submits by default.
ProfileResolution == IF SdxlProfile THEN "1024" ELSE "512,768,1024"

(* C23, as stated: every hyperparameter the caller of startTraining        *)
(* supplies (steps, loraRank, batchSize, resolution, learningRate) is      *)
(* submitted unchanged, and a profile default is submitted only for a      *)
(* hyperparameter the caller did not supply.                               *)
C23_SuppliedHyperparametersSent ==
    TrainingSubmitted =>
        /\ SentSteps = IF Supplied(params.steps) THEN params.steps[1] ELSE 1000
        /\ SentTraining.lora_rank =
              IF Supplied(params.loraRank) THEN params.loraRank[1] ELSE 16
        /\ SentTraining.batch_size =
              IF Supplied(params.batchSize) THEN params.batchSize[1] ELSE 1
        /\ SentTraining.resolution =
              IF Supplied(params.resolution) THEN params.resolution[1] ELSE ProfileResolution
        /\ SentTraining.learning_rate =
              IF Supplied(params.learningRate) THEN params.learningRate[1] ELSE 4

(* C23, amended: every supplied hyperparameter other than 0 and the empty  *)
(* string is submitted unchanged; the profile default is submitted for a   *)
(* hyperparameter that is not supplied, or supplied as 0 or as the empty   *)
(* string.  The learning rate is counted in units of 0.0001.               *)
C23_TruthyHyperparametersSent ==
    TrainingSubmitted =>
        /\ SentSteps = IF Supplied(params.steps) /\ params.steps[1] # 0
                       THEN params.steps[1] ELSE 1000
        /\ SentTraining.lora_rank =
              IF Supplied(params.loraRank) /\ params.loraRank[1] # 0
              THEN params.loraRank[1] ELSE 16
        /\ SentTraining.batch_size =
              IF Supplied(params.batchSize) /\ params.batchSize[1] # 0
              THEN params.batchSize[1] ELSE 1
        /\ SentTraining.resolution =
              IF Supplied(params.resolution) /\ params.resolution[1] # ""
              THEN params.resolution[1] ELSE ProfileResolution
        /\ SentTraining.learning_rate =
              IF Supplied(params.learningRate) /\ params.learningRate[1] # 0
              THEN params.learningRate[1] ELSE 4

C23_Witness ==
    /\ TrainingSubmitted
    /\ SdxlProfile
    /\ params.steps = Some(500)
    /\ params.learningRate = Some(0)
    /\ params.resolution = None
    /\ SentSteps = 500
    /\ SentTraining.learning_rate = 4
    /\ SentTraining.resolution = "1024"


(* C24: generateWithLoRA sends lora_scale equal to the request's loraScale *)
(* whenever one is supplied and 1.0 (10 tenths) only when it is not; in    *)
(* both generation modes num_inference_steps is the caller's steps when    *)
(* supplied and 28 only when not supplied.                                 *)
C24_SuppliedScaleAndStepsSent ==
    GenerationSent =>
        /\ SentInput.num_inference_steps =
              IF Supplied(params.steps) THEN params.steps[1] ELSE 28
        /\ op = "generateWithLoRA" =>
              SentInput.lora_scale =
                 IF Supplied(params.loraScale) THEN params.loraScale[1] ELSE 10


-----------------------------------------------------------------------------
(* A caller polling the status of its trainings.                           *)

NextPolling ==
    \/ CallGetTrainingStatus
    \/ PollSettle
    \/ TakeStatus
    \/ ProviderAdvance

SpecPolling == Init /\ [][NextPolling]_vars

(* C25: the provider's job status never leaving a terminal state, once a   *)
(* getTrainingStatus call for a job has returned a terminal status         *)
(* (succeeded, failed, canceled), every later getTrainingStatus call for   *)
(* the same job returns that status, whether or not a fetch fails.         *)
C25_TerminalStatusStable ==
    (/\ op = "getTrainingStatus"
     /\ pc = "returned"
     /\ seen[params.trainingId] \in TerminalStatuses) =>
        result.value.status = JSStr(seen[params.trainingId])


-----------------------------------------------------------------------------
(* Trainings started with a provider that keeps the models it created.     *)

NextDestination ==
    \/ CallStartTraining
    \/ ProviderCreatesModel
    \/ ModelsCreateAnswered
    \/ TrainingsCreateSettle
    \/ TakeResult

SpecDestination == Init /\ [][NextDestination]_vars

\* trainings.create gave startTraining a training.
SubmissionSucceeded ==
    /\ Requested(2, "trainings.create")
    /\ calls[2].outcome = "resolved"
    /\ ~calls[2].response.isNull

(* C26: a TrainingJob returned by startTraining carries a                  *)
(* destinationModelId if and only if trainings.create returned a training; *)
(* when trainings.create rejects after the destination model was created,  *)
(* the result is failed without the model's identifier, no further request *)
(* is made and the model is still among the provider's models.             *)
C26_DestinationReported ==
    (op = "startTraining" /\ pc = "returned") =>
        /\ result.kind = "return"
        /\ result.value.destinationModelId # Undefined <=> SubmissionSucceeded
        /\ (Requested(2, "trainings.create") /\ calls[2].outcome = "rejected") =>
              /\ result.value.status = JSStr("failed")
              /\ result.value.destinationModelId = Undefined
              /\ Len(calls) = 2
              /\ (calls[1].request.owner \o "/" \o calls[1].request.name) \in provider.models

C26_Witness ==
    /\ op = "startTraining"
    /\ pc = "returned"
    /\ Requested(2, "trainings.create")
    /\ calls[2].outcome = "rejected"
    /\ provider.models # {}
    /\ result.value.status = JSStr("failed")
    /\ result.value.destinationModelId = Undefined


(* C27: every GenerationResult with status completed contains exactly one  *)
(* image, whose url is a non-empty element of the provider's output and    *)
(* whose width and height are the dimensions sent to the provider,         *)
(* whatever the shape of the output, an empty sequence included.           *)
C27_CompletedImage ==
    (GenerationReturned /\ GenerationAnswered /\ result.value.status = "completed") =>
        /\ Len(result.value.images) = 1
        /\ result.value.images[1].width = SentInput.width
        /\ result.value.images[1].height = SentInput.height
        /\ result.value.images[1].url.t = "string"
        /\ result.value.images[1].url.s # ""
        /\ IF Answer.output.t = "array"
           THEN \E i \in DOMAIN Answer.output.a :
                   Answer.output.a[i] = result.value.images[1].url
           ELSE Answer.output = result.value.images[1].url


(* C28: for each trainer getAvailableTrainers lists, startTraining called  *)
(* with that entry's baseModel submits the training to the trainer with    *)
(* the listed id (owner/name) and the listed version.                      *)
C28_TrainersConsistent ==
    TrainingSubmitted =>
        \A i \in DOMAIN GetAvailableTrainers :
            params.baseModel = Some(GetAvailableTrainers[i].baseModel) =>
               /\ calls[2].request.owner \o "/" \o calls[2].request.name
                     = GetAvailableTrainers[i].id
               /\ calls[2].request.version = GetAvailableTrainers[i].version

C28_Witness ==
    /\ TrainingSubmitted
    /\ params.baseModel = Some("stabilityai/stable-diffusion-xl-base-1.0")
    /\ calls[2].request.owner = "ostris"
    /\ calls[2].request.name = "sdxl-lora-trainer"
    /\ calls[2].request.version = "latest"


\* The identifiers the provider gives its jobs.
ProviderJobIds ==
    {JSStr(id) : id \in TrainingIds}
        \cup {r.id : r \in CreatedTrainings} \cup {r.id : r \in FetchedTrainings}

(* C29: when the provider fetch rejects, getTrainingStatus returns a       *)
(* TrainingJob whose id is the trainingId it was called with; when         *)
(* startTraining fails (it obtained no training from the provider) it      *)
(* returns an id synthesized locally, 'error_' followed by the time, which *)
(* is not a provider job id.                                               *)
C29_FailureIds ==
    /\ (/\ op = "getTrainingStatus"
        /\ Requested(1, "trainings.get")
        /\ calls[1].outcome = "rejected") =>
           /\ pc = "returned"
           /\ result.kind = "return"
           /\ result.value.id = params.trainingId
    /\ (op = "startTraining" /\ pc \in {"returned", "raised"} /\ ~SubmissionSucceeded) =>
           /\ result.kind = "return"
           /\ \E t \in 0..now : result.value.id = "error_" \o ToString(t)
           /\ JSStr(result.value.id) \notin ProviderJobIds

C29_Witness ==
    /\ op = "getTrainingStatus"
    /\ Requested(1, "trainings.get")
    /\ calls[1].outcome = "rejected"
    /\ params.trainingId = "trn2"
    /\ pc = "returned"
    /\ result.value.id = "trn2"


-----------------------------------------------------------------------------
(* Initialization of the Stripe module.                                    *)

NextStripe ==
    \/ LoadStripeModule
    \/ TakeResult
    \/ Discard

SpecStripe == InitConstruction /\ [][NextStripe]_vars

(* C30: the Stripe client is built with the dummy development key only in  *)
(* a non-production environment: whenever NODE_ENV is 'production' and     *)
(* STRIPE_API_TOKEN is missing, module initialization throws and creates   *)
(* no client with the dummy key.                                           *)
C30_NoDummyKeyInProduction ==
    op = "stripe" =>
        /\ client = [built |-> TRUE, auth |-> "sk_test_DUMMYKEYFORDEVELOPMENT12345"] =>
              params.NODE_ENV # Some("production")
        /\ (params.NODE_ENV = Some("production") /\ ~Present(params.STRIPE_API_TOKEN)) =>
              /\ pc = "raised"
              /\ ~client.built

====
